---- MODULE Spec2Model ----
\* Touch validation and scoring for spliced Major (run.py): place-notation
\* parsing, row generation, touch composition with early-rounds truncation,
\* method counting, run counting.
\*
\* Python strings are modelled as sequences of one-character strings, so that
\* indexing, slicing, splitting and int() are computed rather than assumed.
EXTENDS Integers, Sequences, FiniteSets, TLC

\* ---------------------------------------------------------------- constants

BELL_NAMES ==
  <<"1","2","3","4","5","6","7","8","9","0","E","T","A","B","C","D">>

STAGE == 8

\* BELL_NAMES[STAGE - 1] with Python's 0-based indexing
TENOR == BELL_NAMES[(STAGE - 1) + 1]

\* BELL_NAMES[:STAGE]
ROUNDS == SubSeq(BELL_NAMES, 1, STAGE)

\* ------------------------------------------------------- Python primitives

\* seq[i] with a 0-based index; a negative index counts from the end.
PyIndex(seq, i) == IF i >= 0 THEN seq[i + 1] ELSE seq[Len(seq) + i + 1]

\* int(ch) for a one-character string: defined on the decimal digits only.
int ==
  "0" :> 0 @@ "1" :> 1 @@ "2" :> 2 @@ "3" :> 3 @@ "4" :> 4 @@
  "5" :> 5 @@ "6" :> 6 @@ "7" :> 7 @@ "8" :> 8 @@ "9" :> 9

\* x in seq
In(x, seq) == \E i \in 1..Len(seq) : seq[i] = x

\* list(reversed(seq))
Reversed(seq) == [i \in 1..Len(seq) |-> seq[Len(seq) + 1 - i]]

\* seq.index(x[, start]) with a 0-based start; -1 stands for ValueError.
Index(seq, x, start) ==
  IF \E i \in (start + 1)..Len(seq) : seq[i] = x
  THEN (CHOOSE i \in (start + 1)..Len(seq) :
          /\ seq[i] = x
          /\ \A j \in (start + 1)..(i - 1) : seq[j] # x) - 1
  ELSE -1

\* ------------------------------------------------------ place notation code

\* A composition with its operands exchanged
transpose_row_by_row_Swapped(lhs, rhs) ==
  [i \in 1..Len(lhs) |-> PyIndex(rhs, int[lhs[i]] - 1)]

\* "".join(lhs[int(ch) - 1] for ch in rhs)
transpose_row_by_row(lhs, rhs) ==
  [i \in 1..Len(rhs) |-> PyIndex(lhs, int[rhs[i]] - 1)]

\* The while loop of transpose_row_by_pn from position `index` on. The result
\* is the new row (exc = "none"), or the exception that ends the call, with
\* the part of the row built until then.
RECURSIVE PnLoop(_, _, _, _)
PnLoop(row, places, index, new_row) ==
  IF ~(index < Len(row)) THEN [exc |-> "none", row |-> new_row]
  ELSE LET place == index + 1 IN
    IF In(place, places)
    THEN PnLoop(row, places, index + 1, Append(new_row, row[index + 1]))
    ELSE IF In(place + 1, places)
         THEN [exc |-> "AssertionError", row |-> new_row]
    ELSE IF index + 1 >= Len(row)
         THEN [exc |-> "IndexError", row |-> new_row]
    ELSE PnLoop(row, places, index + 2,
                new_row \o <<row[index + 2], row[index + 1]>>)

\* A loop that asserts, at every position, that the next one is not a place
RECURSIVE PnLoop_Strict(_, _, _, _)
PnLoop_Strict(row, places, index, new_row) ==
  IF ~(index < Len(row)) THEN [exc |-> "none", row |-> new_row]
  ELSE LET place == index + 1 IN
    IF In(place + 1, places)
    THEN [exc |-> "AssertionError", row |-> new_row]
    ELSE IF In(place, places)
    THEN PnLoop_Strict(row, places, index + 1, Append(new_row, row[index + 1]))
    ELSE IF index + 1 >= Len(row)
         THEN [exc |-> "IndexError", row |-> new_row]
    ELSE PnLoop_Strict(row, places, index + 2,
                       new_row \o <<row[index + 2], row[index + 1]>>)

transpose_row_by_pn_Strict(row, places) == PnLoop_Strict(row, places, 0, <<>>)

transpose_row_by_pn(row, places) == PnLoop(row, places, 0, <<>>)

\* BELL_NAMES.index(bell) + 1; 0 stands for the ValueError.
convert_bell_string(bell) == Index(BELL_NAMES, bell, 0) + 1

\* s.split(sep) for a one-character separator
RECURSIVE Split(_, _)
Split(s, sep) ==
  IF ~In(sep, s) THEN <<s>>
  ELSE LET k == Index(s, sep, 0) IN
       <<SubSeq(s, 1, k)>> \o Split(SubSeq(s, k + 2, Len(s)), sep)

\* Number of "." at the start of s[i..] (1-based i)
RECURSIVE Dots(_, _)
Dots(s, i) == IF i <= Len(s) /\ s[i] = "." THEN 1 + Dots(s, i + 1) ELSE 0

\* re.sub("[.]*[x-][.]*", ".-.", s) from 1-based position i on: leftmost,
\* greedy, non-overlapping matches.
RECURSIVE SubCross(_, _)
SubCross(s, i) ==
  IF i > Len(s) THEN <<>>
  ELSE LET d == Dots(s, i) IN
    IF i + d <= Len(s) /\ s[i + d] \in {"x", "-"}
    THEN <<".", "-", ".">> \o SubCross(s, i + d + 1 + Dots(s, i + d + 1))
    ELSE <<s[i]>> \o SubCross(s, i + 1)

StripChars == {".", "&", "+", " "}

\* s.strip(".&+ ")
RECURSIVE LStrip(_)
LStrip(s) ==
  IF s # <<>> /\ Head(s) \in StripChars THEN LStrip(Tail(s)) ELSE s

RECURSIVE RStrip(_)
RStrip(s) ==
  IF s # <<>> /\ s[Len(s)] \in StripChars
  THEN RStrip(SubSeq(s, 1, Len(s) - 1)) ELSE s

Strip(s) == RStrip(LStrip(s))

\* s.replace("..", "."): non-overlapping occurrences, left to right
RECURSIVE ReplaceDotDot(_)
ReplaceDotDot(s) ==
  IF Len(s) < 2 THEN s
  ELSE IF s[1] = "." /\ s[2] = "."
       THEN <<".">> \o ReplaceDotDot(SubSeq(s, 3, Len(s)))
       ELSE <<s[1]>> \o ReplaceDotDot(Tail(s))

\* s.startswith(ch)
StartsWith(s, ch) == s # <<>> /\ s[1] = ch

\* One change-token to its list of places; raises ValueError if a character
\* is no bell symbol.
ConvertPlace(place) ==
  IF place = <<"-">> THEN [exc |-> "none", places |-> <<>>]
  ELSE IF \E i \in 1..Len(place) : convert_bell_string(place[i]) = 0
       THEN [exc |-> "ValueError", places |-> <<>>]
       ELSE [exc |-> "none",
             places |-> [i \in 1..Len(place) |-> convert_bell_string(place[i])]]

\* A block whose mirror image repeats its last change
ParseBlock_RepeatLast(pn_str, expect_symmetric) ==
  LET symmetric == IF expect_symmetric THEN ~StartsWith(pn_str, "+")
                   ELSE StartsWith(pn_str, "&")
      dot_delimited_string == Strip(SubCross(pn_str, 1))
      deduplicated_string == Split(ReplaceDotDot(dot_delimited_string), ".")
      results == [i \in 1..Len(deduplicated_string) |->
                     ConvertPlace(deduplicated_string[i])]
      converted == [i \in 1..Len(results) |-> results[i].places]
  IN IF \E i \in 1..Len(results) : results[i].exc # "none"
     THEN [exc |-> "ValueError", pns |-> <<>>]
     ELSE IF symmetric
          THEN [exc |-> "none", pns |-> converted \o Reversed(converted)]
          ELSE [exc |-> "none", pns |-> converted]

\* parse_pn on a string without ",": symmetry decision, normalisation,
\* conversion and mirroring.
ParseBlock(pn_str, expect_symmetric) ==
  LET symmetric == IF expect_symmetric THEN ~StartsWith(pn_str, "+")
                   ELSE StartsWith(pn_str, "&")
      dot_delimited_string == Strip(SubCross(pn_str, 1))
      deduplicated_string == Split(ReplaceDotDot(dot_delimited_string), ".")
      results == [i \in 1..Len(deduplicated_string) |->
                     ConvertPlace(deduplicated_string[i])]
      converted == [i \in 1..Len(results) |-> results[i].places]
  IN IF \E i \in 1..Len(results) : results[i].exc # "none"
     THEN [exc |-> "ValueError", pns |-> <<>>]
     ELSE IF symmetric
          THEN [exc |-> "none",
                pns |-> converted \o
                        Reversed(SubSeq(converted, 1, Len(converted) - 1))]
          ELSE [exc |-> "none", pns |-> converted]

\* pns += parse_pn(part, True) over the parts, in order
RECURSIVE ParseParts(_)
ParseParts(parts) ==
  IF parts = <<>> THEN [exc |-> "none", pns |-> <<>>]
  ELSE LET head == ParseBlock(Head(parts), TRUE)
           rest == ParseParts(Tail(parts))
       IN IF head.exc # "none" \/ rest.exc # "none"
          THEN [exc |-> "ValueError", pns |-> <<>>]
          ELSE [exc |-> "none", pns |-> head.pns \o rest.pns]

parse_pn(pn_str, expect_symmetric) ==
  IF In(",", pn_str) THEN ParseParts(Split(pn_str, ","))
  ELSE ParseBlock(pn_str, expect_symmetric)

\* ------------------------------------------------------------------ methods

BOB_PLACES == <<1, 4>>
SINGLE_PLACES == <<1, 2, 3, 4>>

\* The loop of Method.__init__: the lead rows recorded so far and the current
\* row, after the first n place-sets.
RECURSIVE LeadLoop(_, _)
LeadLoop(pns, n) ==
  IF n = 0 THEN [exc |-> "none", lead_rows |-> <<>>, current_row |-> ROUNDS]
  ELSE LET prev == LeadLoop(pns, n - 1)
           next == transpose_row_by_pn(prev.current_row, pns[n])
       IN IF prev.exc # "none" THEN prev
          ELSE [exc |-> next.exc,
                lead_rows |-> Append(prev.lead_rows, prev.current_row),
                current_row |-> next.row]

\* A construction that makes the bob and the single from the plain lead head
MethodOfPns_CallsFromPlain(pns) ==
  LET done == LeadLoop(pns, Len(pns))
      failed(e) == [exc |-> e, lead_rows |-> <<>>, lead_head_plain |-> <<>>,
                    lead_head_bob |-> <<>>, lead_head_single |-> <<>>]
  IN IF done.exc # "none" THEN failed(done.exc)
     ELSE IF done.lead_rows = <<>> THEN failed("IndexError")
     ELSE LET bob == transpose_row_by_pn(done.current_row, BOB_PLACES)
              single == transpose_row_by_pn(done.current_row, SINGLE_PLACES)
          IN IF bob.exc # "none" THEN failed(bob.exc)
             ELSE IF single.exc # "none" THEN failed(single.exc)
             ELSE [exc |-> "none",
                   lead_rows |-> done.lead_rows,
                   lead_head_plain |-> done.current_row,
                   lead_head_bob |-> bob.row,
                   lead_head_single |-> single.row]

\* Method.__init__ given the parsed place notation. exc names the exception
\* that ends the construction, if any; lead_rows[-1] of an empty list raises
\* IndexError.
MethodOfPns(pns) ==
  LET done == LeadLoop(pns, Len(pns))
      failed(e) == [exc |-> e, lead_rows |-> <<>>, lead_head_plain |-> <<>>,
                    lead_head_bob |-> <<>>, lead_head_single |-> <<>>]
  IN IF done.exc # "none" THEN failed(done.exc)
     ELSE IF done.lead_rows = <<>> THEN failed("IndexError")
     ELSE LET last == done.lead_rows[Len(done.lead_rows)]
              bob == transpose_row_by_pn(last, BOB_PLACES)
              single == transpose_row_by_pn(last, SINGLE_PLACES)
          IN IF bob.exc # "none" THEN failed(bob.exc)
             ELSE IF single.exc # "none" THEN failed(single.exc)
             ELSE [exc |-> "none",
                   lead_rows |-> done.lead_rows,
                   lead_head_plain |-> done.current_row,
                   lead_head_bob |-> bob.row,
                   lead_head_single |-> single.row]

Method(pn_string) ==
  LET parsed == parse_pn(pn_string, FALSE)
  IN IF parsed.exc # "none"
     THEN [exc |-> parsed.exc, lead_rows |-> <<>>, lead_head_plain |-> <<>>,
           lead_head_bob |-> <<>>, lead_head_single |-> <<>>]
     ELSE MethodOfPns(parsed.pns)

\* The place notation strings of load_methods:
\*   C  Cambridge       -38-14-1258-36-14-58-16-78,12
\*   Y  Yorkshire       -38-14-58-16-12-38-14-78,12
\*   S  Superlative     -36-14-58-36-14-58-36-78,12
\*   B  Bristol         -58-14.58-58.36.14-14.58-14-18,18
\*   E  Lessness        -38-14-56-16-12-58-14-58,12
\*   W  Cornwall        -56-14-56-38-14-58-14-58,18
\*   L  London          38-38.14-12-38.14-14.58.16-16.58,12
\*   N  Double Norwich  -14-36-58-18,18
\*   V  Deva            -58-14.58-58.36-14-58-36-18,18
\*   A  Lancashire      58-58.14-58-36-14-58.14-14.78,12
\*   T  Ytterbium       -38-14-1256-16-12-58.16-12.78,12
\*   D  Double Coslany  -14.58.36.14.58-18,18
\*   M  Mareham         -58-14.58-12.38-12-18.36.12-18,18
\*   G  Glasgow         36-56.14.58-58.36-14-38.16-16.38,18
PnStrings ==
     "C" :> <<"-","3","8","-","1","4","-","1","2","5","8","-","3","6","-","1","4","-","5","8","-","1","6","-","7","8",",","1","2">>
  @@ "Y" :> <<"-","3","8","-","1","4","-","5","8","-","1","6","-","1","2","-","3","8","-","1","4","-","7","8",",","1","2">>
  @@ "S" :> <<"-","3","6","-","1","4","-","5","8","-","3","6","-","1","4","-","5","8","-","3","6","-","7","8",",","1","2">>
  @@ "B" :> <<"-","5","8","-","1","4",".","5","8","-","5","8",".","3","6",".","1","4","-","1","4",".","5","8","-","1","4","-","1","8",",","1","8">>
  @@ "E" :> <<"-","3","8","-","1","4","-","5","6","-","1","6","-","1","2","-","5","8","-","1","4","-","5","8",",","1","2">>
  @@ "W" :> <<"-","5","6","-","1","4","-","5","6","-","3","8","-","1","4","-","5","8","-","1","4","-","5","8",",","1","8">>
  @@ "L" :> <<"3","8","-","3","8",".","1","4","-","1","2","-","3","8",".","1","4","-","1","4",".","5","8",".","1","6","-","1","6",".","5","8",",","1","2">>
  @@ "N" :> <<"-","1","4","-","3","6","-","5","8","-","1","8",",","1","8">>
  @@ "V" :> <<"-","5","8","-","1","4",".","5","8","-","5","8",".","3","6","-","1","4","-","5","8","-","3","6","-","1","8",",","1","8">>
  @@ "A" :> <<"5","8","-","5","8",".","1","4","-","5","8","-","3","6","-","1","4","-","5","8",".","1","4","-","1","4",".","7","8",",","1","2">>
  @@ "T" :> <<"-","3","8","-","1","4","-","1","2","5","6","-","1","6","-","1","2","-","5","8",".","1","6","-","1","2",".","7","8",",","1","2">>
  @@ "D" :> <<"-","1","4",".","5","8",".","3","6",".","1","4",".","5","8","-","1","8",",","1","8">>
  @@ "M" :> <<"-","5","8","-","1","4",".","5","8","-","1","2",".","3","8","-","1","2","-","1","8",".","3","6",".","1","2","-","1","8",",","1","8">>
  @@ "G" :> <<"3","6","-","5","6",".","1","4",".","5","8","-","5","8",".","3","6","-","1","4","-","3","8",".","1","6","-","1","6",".","3","8",",","1","8">>

load_methods == [k \in DOMAIN PnStrings |-> Method(PnStrings[k])]

\* ------------------------------------------------------------ composition

\* calling_positions[row.index(TENOR)]
calling_pos_at(row, is_single) ==
  LET calling_positions ==
        IF is_single THEN <<"L","B","T","F","V","M","W","H">>
        ELSE <<"L","I","B","F","V","M","W","H">>
  IN PyIndex(calling_positions, Index(row, TENOR, 0))

\* [transpose_row_by_row(lead_head, row) for row in method.lead_rows]
LeadRows(head, method) ==
  [i \in 1..Len(method.lead_rows) |->
     transpose_row_by_row(head, method.lead_rows[i])]

\* A plain lead that jumps to the method's lead head instead of composing
\* it with the current one
NextLeadHead_NotComposed(head, method, call_shorthand) ==
  CASE call_shorthand = "None" -> method.lead_head_plain
    [] call_shorthand = "." ->
         transpose_row_by_row(head, method.lead_head_bob)
    [] call_shorthand = "*" ->
         transpose_row_by_row(head, method.lead_head_single)

\* The lead head the call leads to
NextLeadHead(head, method, call_shorthand) ==
  CASE call_shorthand = "None" ->
         transpose_row_by_row(head, method.lead_head_plain)
    [] call_shorthand = "." ->
         transpose_row_by_row(head, method.lead_head_bob)
    [] call_shorthand = "*" ->
         transpose_row_by_row(head, method.lead_head_single)

\* The calls recorded once the lead head has moved to new_head
NextCalls(old_calls, new_head, call_shorthand) ==
  CASE call_shorthand = "None" -> old_calls
    [] call_shorthand = "." ->
         Append(old_calls, <<"-", calling_pos_at(new_head, FALSE)>>)
    [] call_shorthand = "*" ->
         Append(old_calls, <<"s", calling_pos_at(new_head, TRUE)>>)

\* A search for rounds that starts at the first row
RoundsIndex_FromStart(all_rows) == Index(all_rows, ROUNDS, 0)

\* rows.index(ROUNDS, 1); -1 stands for the ValueError
RoundsIndex(all_rows) == Index(all_rows, ROUNDS, 1)

\* last_lead_length -= len(rows) - rounds_index
TruncatedLastLeadLength(lll, all_rows, rounds_index) ==
  lll - (Len(all_rows) - rounds_index)

\* A trim that keeps the row of rounds
TruncatedRows_KeepRounds(all_rows, rounds_index) ==
  SubSeq(all_rows, 1, rounds_index + 1)

\* rows[:rounds_index]
TruncatedRows(all_rows, rounds_index) == SubSeq(all_rows, 1, rounds_index)

\* ----------------------------------------------------------------- analysis

\* The tally of the shorthands of the leads
RECURSIVE Tally(_)
Tally(ls) ==
  IF ls = <<>> THEN <<>>
  ELSE LET counts == Tally(SubSeq(ls, 1, Len(ls) - 1))
           shorthand == ls[Len(ls)][1]
       IN IF shorthand \in DOMAIN counts
          THEN [counts EXCEPT ![shorthand] = @ + 1]
          ELSE counts @@ (shorthand :> 1)

Max(a, b) == IF a >= b THEN a ELSE b

\* last_lead_length < len_of_last_methods_lead / 2, a true division
LessThanHalf(lll, len_of_last_methods_lead) ==
  2 * lll < len_of_last_methods_lead

\* A decrement that is not kept from going below 1
HalfLeadAdjust_NoFloor(counts, last_shorthand, lll, len_of_last_methods_lead) ==
  IF LessThanHalf(lll, len_of_last_methods_lead)
  THEN [counts EXCEPT ![last_shorthand] = @ - 1]
  ELSE counts

\* The counts after the last lead has been handled
HalfLeadAdjust(counts, last_shorthand, lll, len_of_last_methods_lead) ==
  IF LessThanHalf(lll, len_of_last_methods_lead)
  THEN [counts EXCEPT ![last_shorthand] = Max(1, @ - 1)]
  ELSE counts

\* The alternatives of run_regex_front and run_regex_back
RunPatterns ==
  { <<"1","2","3","4">>, <<"2","3","4","5">>, <<"3","4","5","6">>,
    <<"4","5","6","7">>, <<"5","6","7","8">>, <<"4","3","2","1">>,
    <<"5","4","3","2">>, <<"6","5","4","3">>, <<"7","6","5","4">>,
    <<"8","7","6","5">> }

\* run_regex_front.match(row)
RunFront(row) == Len(row) >= 4 /\ SubSeq(row, 1, 4) \in RunPatterns

\* run_regex_back.match(row)
RunBack(row) ==
  Len(row) >= 4 /\ SubSeq(row, Len(row) - 3, Len(row)) \in RunPatterns

\* A row that scores once however many of its ends match
RowRuns_Once(row) == IF RunFront(row) \/ RunBack(row) THEN 1 ELSE 0

\* What one row adds to self.runs
RowRuns(row) ==
  (IF RunFront(row) THEN 1 ELSE 0) + (IF RunBack(row) THEN 1 ELSE 0)

\* A check that only rejects a declared length that is too long
LengthIsWrong_TooLongOnly(len, rs) == len > Len(rs)

\* self.length != len(rows)
LengthIsWrong(len, rs) == len # Len(rs)

\* self.runs after the first n rows
RECURSIVE CountRunsLoop(_, _)
CountRunsLoop(rs, n) ==
  IF n = 0 THEN 0 ELSE CountRunsLoop(rs, n - 1) + RowRuns(rs[n])

\* --------------------------------------------------------------- the inputs

\* The most leads a call string holds
MaxLeads == 4

\* The most leads of a plain course that is replayed
MaxPlainLeads == 8

\* The largest place of the place-sets handed to transpose_row_by_pn
MaxPlace == 9
MaxPnLen == 4

\* The methods the call strings are written in
RungMethods == {"D", "L", "V"}

\* The call of a lead: none, a bob or a single
Calls == {"None", ".", "*"}

\* The lengths the touch records declare
DeclaredLengths == {32, 50}

methods == load_methods

\* Valid rows to compose: the lead rows and lead heads of the methods rung
RowSample ==
  UNION { {methods[m].lead_rows[i] : i \in 1..Len(methods[m].lead_rows)}
            \cup {methods[m].lead_head_plain, methods[m].lead_head_bob,
                  methods[m].lead_head_single} : m \in RungMethods }

\* Rows handed to transpose_row_by_pn: rounds, its rotations and their
\* reversals
Rotation(k) == [i \in 1..STAGE |-> ROUNDS[((i + k - 1) % STAGE) + 1]]

PnRowSample ==
  {Rotation(k) : k \in 0..(STAGE - 1)}
    \cup {Reversed(Rotation(k)) : k \in 0..(STAGE - 1)}

\* The elements of a set of numbers as an ascending list
RECURSIVE Ascending(_)
Ascending(S) ==
  IF S = {} THEN <<>>
  ELSE LET m == CHOOSE x \in S : \A y \in S : x <= y
       IN <<m>> \o Ascending(S \ {m})

\* The place-sets handed to transpose_row_by_pn
PlaceLists == {Ascending(S) : S \in SUBSET (1..MaxPlace)}

\* The characters of the short place notation strings
PnAlphabet == {"-", "1", "2", "8", ".", "&", "+", ","}

\* Blocks of fewer than MaxPnLen characters, of crosses, first places and "+"
PnBlocks == UNION {[1..n -> {"-", "1", "+"}] : n \in 0..(MaxPnLen - 1)}

\* Place notation strings: every string of at most MaxPnLen characters of
\* PnAlphabet, every two blocks of PnBlocks joined by ",", and the strings of
\* the catalogue
PnStringInputs ==
  UNION {[1..n -> PnAlphabet] : n \in 0..MaxPnLen}
    \cup {a \o <<",">> \o b : a \in PnBlocks, b \in PnBlocks}
    \cup {PnStrings[k] : k \in DOMAIN PnStrings}

\* -------------------------------------------------------------- the machine

VARIABLES
  length,            \* Touch.length, the declared length
  leads,             \* the (method, call) tokens replayed so far
  pc,                \* loop, counts, check, done, raised; call, returned
  rows,              \* gen_rows_and_calls: rows
  calls,             \* gen_rows_and_calls: calls
  lead_head,         \* gen_rows_and_calls: lead_head
  last_lead_length,  \* gen_rows_and_calls: last_lead_length
  outcome,           \* BUILDING, TRUNCATED, COME_ROUND, FAILED
  method_counts,     \* Touch.method_counts
  runs,              \* Touch.runs
  error,             \* the exception that ended the construction, or none
  fn,                \* the place-notation function called on its own, or none
  fn_args,           \* its arguments
  fn_result          \* what it returned or raised

vars == <<length, leads, pc, rows, calls, lead_head, last_lead_length,
          outcome, method_counts, runs, error, fn, fn_args, fn_result>>

touch_vars == <<length, leads, pc, rows, calls, lead_head, last_lead_length,
                outcome, method_counts, runs, error>>

fn_vars == <<fn, fn_args, fn_result>>

\* No touch under construction
NoTouch ==
  /\ length = 0
  /\ leads = <<>>
  /\ rows = <<>>
  /\ calls = <<>>
  /\ lead_head = ROUNDS
  /\ last_lead_length = 0
  /\ outcome = "BUILDING"
  /\ method_counts = <<>>
  /\ runs = 0
  /\ error = "none"

\* Touch.__init__ is entered with a declared length; gen_rows_and_calls has
\* initialised its locals.
Init ==
  /\ length \in DeclaredLengths
  /\ leads = <<>>
  /\ pc = "loop"
  /\ rows = <<>>
  /\ calls = <<>>
  /\ lead_head = ROUNDS
  /\ last_lead_length = 0
  /\ outcome = "BUILDING"
  /\ method_counts = <<>>
  /\ runs = 0
  /\ error = "none"
  /\ fn = "none"
  /\ fn_args = <<>>
  /\ fn_result = <<>>

\* A lead that reads the calling position off the lead head before the call
Lead_OldHead(method_shorthand, call_shorthand) ==
  /\ pc = "loop"
  /\ LET method == methods[method_shorthand]
         new_head == NextLeadHead(lead_head, method, call_shorthand)
     IN /\ rows' = rows \o LeadRows(lead_head, method)
        /\ lead_head' = new_head
        /\ calls' = NextCalls(calls, lead_head, call_shorthand)
        /\ last_lead_length' = Len(method.lead_rows)
  /\ leads' = Append(leads, <<method_shorthand, call_shorthand>>)
  /\ UNCHANGED <<length, pc, outcome, method_counts, runs, error>>
  /\ UNCHANGED fn_vars

\* One iteration of the loop of gen_rows_and_calls, on the next token of the
\* call string.
Lead(method_shorthand, call_shorthand) ==
  /\ pc = "loop"
  /\ LET method == methods[method_shorthand]
         new_head == NextLeadHead(lead_head, method, call_shorthand)
     IN /\ rows' = rows \o LeadRows(lead_head, method)
        /\ lead_head' = new_head
        /\ calls' = NextCalls(calls, new_head, call_shorthand)
        /\ last_lead_length' = Len(method.lead_rows)
  /\ leads' = Append(leads, <<method_shorthand, call_shorthand>>)
  /\ UNCHANGED <<length, pc, outcome, method_counts, runs, error>>
  /\ UNCHANGED fn_vars

\* The tokens are exhausted and rounds is found early: the try branch.
Truncate ==
  /\ pc = "loop"
  /\ leads # <<>>
  /\ LET rounds_index == RoundsIndex(rows)
     IN /\ rounds_index # -1
        /\ last_lead_length' =
             TruncatedLastLeadLength(last_lead_length, rows, rounds_index)
        /\ rows' = TruncatedRows(rows, rounds_index)
  /\ outcome' = "TRUNCATED"
  /\ pc' = "counts"
  /\ UNCHANGED <<length, leads, calls, lead_head, method_counts, runs, error>>
  /\ UNCHANGED fn_vars

\* The tokens are exhausted, rounds is not found early and the last lead
\* head is rounds.
ComeRound ==
  /\ pc = "loop"
  /\ leads # <<>>
  /\ RoundsIndex(rows) = -1
  /\ lead_head = ROUNDS
  /\ outcome' = "COME_ROUND"
  /\ pc' = "counts"
  /\ UNCHANGED <<length, leads, rows, calls, lead_head, last_lead_length,
                 method_counts, runs, error>>
  /\ UNCHANGED fn_vars

\* The tokens are exhausted, rounds is not found early and the last lead
\* head is not rounds: assert False.
DoesNotComeRound ==
  /\ pc = "loop"
  /\ leads # <<>>
  /\ RoundsIndex(rows) = -1
  /\ lead_head # ROUNDS
  /\ outcome' = "FAILED"
  /\ error' = "AssertionError"
  /\ pc' = "raised"
  /\ UNCHANGED <<length, leads, rows, calls, lead_head, last_lead_length,
                 method_counts, runs>>
  /\ UNCHANGED fn_vars

\* Touch.__init__: the methods rung and their lead counts.
CountMethods ==
  /\ pc = "counts"
  /\ LET last_shorthand == leads[Len(leads)][1]
         len_of_last_methods_lead == Len(methods[last_shorthand].lead_rows)
     IN method_counts' =
          HalfLeadAdjust(Tally(leads), last_shorthand, last_lead_length,
                         len_of_last_methods_lead)
  /\ pc' = "check"
  /\ UNCHANGED <<length, leads, rows, calls, lead_head, last_lead_length,
                 outcome, runs, error>>
  /\ UNCHANGED fn_vars

\* Touch.__init__: the given length is not the number of rows.
LengthMismatch ==
  /\ pc = "check"
  /\ LengthIsWrong(length, rows)
  /\ error' = "ValueError"
  /\ pc' = "raised"
  /\ UNCHANGED <<length, leads, rows, calls, lead_head, last_lead_length,
                 outcome, method_counts, runs>>
  /\ UNCHANGED fn_vars

\* Touch.__init__: the given length was correct; count the runs.
CountRuns ==
  /\ pc = "check"
  /\ ~LengthIsWrong(length, rows)
  /\ runs' = CountRunsLoop(rows, Len(rows))
  /\ pc' = "done"
  /\ UNCHANGED <<length, leads, rows, calls, lead_head, last_lead_length,
                 outcome, method_counts, error>>
  /\ UNCHANGED fn_vars

\* What follows the last token of the call string
Finish ==
  \/ Truncate
  \/ ComeRound
  \/ DoesNotComeRound
  \/ CountMethods
  \/ LengthMismatch
  \/ CountRuns

\* Touches of at most MaxLeads leads of the methods rung, with any calls
Next ==
  \/ \E method_shorthand \in RungMethods, call_shorthand \in Calls :
       /\ Len(leads) < MaxLeads
       /\ Lead(method_shorthand, call_shorthand)
  \/ Finish

Spec == Init /\ [][Next]_vars

\* A plain lead of method_shorthand, in a call string that so far holds
\* nothing but plain leads of it.
PlainLead(method_shorthand) ==
  /\ Len(leads) < MaxPlainLeads
  /\ \A i \in 1..Len(leads) : leads[i] = <<method_shorthand, "None">>
  /\ Lead(method_shorthand, "None")

\* Plain courses of every method of the catalogue: the call strings X, XX,
\* XXX, ... are composed.
PlainNext ==
  \/ \E method_shorthand \in DOMAIN methods : PlainLead(method_shorthand)
  \/ Truncate
  \/ ComeRound
  \/ DoesNotComeRound

PlainSpec == Init /\ [][PlainNext]_vars

\* transpose_row_by_row is called on two valid rows.
RowInit ==
  /\ NoTouch
  /\ pc = "call"
  /\ fn = "transpose_row_by_row"
  /\ fn_args \in RowSample \X RowSample
  /\ fn_result = <<>>

TransposeRows ==
  /\ pc = "call"
  /\ fn = "transpose_row_by_row"
  /\ fn_result' = transpose_row_by_row(fn_args[1], fn_args[2])
  /\ pc' = "returned"
  /\ UNCHANGED <<length, leads, rows, calls, lead_head, last_lead_length,
                 outcome, method_counts, runs, error, fn, fn_args>>

\* Rows are composed on their own and in the touches of Spec.
RowSpec == (Init \/ RowInit) /\ [][Next \/ TransposeRows]_vars

\* transpose_row_by_pn is called on a valid row and a place-set.
PnInit ==
  /\ NoTouch
  /\ pc = "call"
  /\ fn = "transpose_row_by_pn"
  /\ fn_args \in PnRowSample \X PlaceLists
  /\ fn_result = <<>>

ApplyPlaces ==
  /\ pc = "call"
  /\ fn = "transpose_row_by_pn"
  /\ fn_result' = transpose_row_by_pn(fn_args[1], fn_args[2])
  /\ pc' = "returned"
  /\ UNCHANGED <<length, leads, rows, calls, lead_head, last_lead_length,
                 outcome, method_counts, runs, error, fn, fn_args>>

PnSpec == PnInit /\ [][ApplyPlaces]_vars

\* ------------------------------------------------------------------ replays

\* Method is constructed from a place notation string.
MethodInit ==
  /\ NoTouch
  /\ pc = "call"
  /\ fn = "Method"
  /\ fn_args \in {<<pn_string>> : pn_string \in PnStringInputs}
  /\ fn_result = <<>>

BuildMethod ==
  /\ pc = "call"
  /\ fn = "Method"
  /\ fn_result' = Method(fn_args[1])
  /\ pc' = "returned"
  /\ UNCHANGED <<length, leads, rows, calls, lead_head, last_lead_length,
                 outcome, method_counts, runs, error, fn, fn_args>>

MethodSpec == MethodInit /\ [][BuildMethod]_vars

\* parse_pn is called on a place notation string.
ParseInit ==
  /\ NoTouch
  /\ pc = "call"
  /\ fn = "parse_pn"
  /\ fn_args \in PnStringInputs \X BOOLEAN
  /\ fn_result = <<>>

ParsePn ==
  /\ pc = "call"
  /\ fn = "parse_pn"
  /\ fn_result' = parse_pn(fn_args[1], fn_args[2])
  /\ pc' = "returned"
  /\ UNCHANGED <<length, leads, rows, calls, lead_head, last_lead_length,
                 outcome, method_counts, runs, error, fn, fn_args>>

ParseSpec == ParseInit /\ [][ParsePn]_vars

\* The rows and the lead head of gen_rows_and_calls after its loop has run
\* over the leads ls, before the search for early rounds.
RECURSIVE Replay(_)
Replay(ls) ==
  IF ls = <<>> THEN [rows |-> <<>>, lead_head |-> ROUNDS]
  ELSE LET prev == Replay(SubSeq(ls, 1, Len(ls) - 1))
           method == methods[ls[Len(ls)][1]]
       IN [rows |-> prev.rows \o LeadRows(prev.lead_head, method),
           lead_head |-> NextLeadHead(prev.lead_head, method, ls[Len(ls)][2])]

\* Rounds occurs at some index >= 1 (0-based) of the row sequence
RoundsEarly(rs) == \E i \in 2..Len(rs) : rs[i] = ROUNDS

\* gen_rows_and_calls has returned or raised
Composed == pc \in {"counts", "check", "done", "raised"}

\* ---------------------------------------------------------------------- C1

\* C1: when the tokens are exhausted exactly one of TRUNCATED, COME_ROUND
\* and FAILED is reached, from the untruncated rows and the lead head after
\* the last token: the composition fails (the assertion is raised) if and
\* only if rounds occurs at no index >= 1 of the rows and the lead head is
\* not rounds; it is TRUNCATED exactly when rounds occurs early, COME_ROUND
\* exactly when it does not and the lead head is rounds. Every non-empty
\* token sequence has one of these steps to take.
C1_Outcomes ==
  /\ [][ (pc = "loop" /\ pc' # "loop") =>
           LET early == RoundsEarly(rows)
           IN /\ outcome' \in {"TRUNCATED", "COME_ROUND", "FAILED"}
              /\ (outcome' = "FAILED") <=> (~early /\ lead_head # ROUNDS)
              /\ (outcome' = "TRUNCATED") <=> early
              /\ (outcome' = "COME_ROUND") <=> (~early /\ lead_head = ROUNDS)
              /\ (error' = "AssertionError") <=> (outcome' = "FAILED")
              /\ (pc' = "raised") <=> (outcome' = "FAILED") ]_vars
  /\ []((pc = "loop" /\ leads # <<>>) =>
          ENABLED (Truncate \/ ComeRound \/ DoesNotComeRound))

\* A touch of several leads fails to come round although rounds is its
\* first row.
C1_Witness ==
  /\ outcome = "FAILED"
  /\ error = "AssertionError"
  /\ Len(leads) >= 2
  /\ rows[1] = ROUNDS
  /\ ~RoundsEarly(rows)

\* ---------------------------------------------------------------------- C2

\* C2: when rounds occurs at an index >= 1 of the untruncated row sequence,
\* the rows returned are exactly its first k rows, k the smallest such
\* index; otherwise they are the whole sequence. So in a composed touch the
\* row at index 0 is rounds and no later row is.
C2_Truncation ==
  (Composed /\ outcome # "FAILED") =>
    LET full == Replay(leads).rows
    IN /\ IF RoundsEarly(full)
          THEN \E k \in 1..(Len(full) - 1) :
                 /\ full[k + 1] = ROUNDS
                 /\ \A j \in 1..(k - 1) : full[j + 1] # ROUNDS
                 /\ rows = SubSeq(full, 1, k)
          ELSE rows = full
       /\ rows # <<>>
       /\ rows[1] = ROUNDS
       /\ \A i \in 2..Len(rows) : rows[i] # ROUNDS

\* A snap finish: rounds comes up inside the last lead, and the rows from
\* it on are dropped.
C2_Witness ==
  /\ outcome = "TRUNCATED"
  /\ Len(leads) = 3
  /\ LET full == Replay(leads).rows
     IN /\ Len(rows) < Len(full)
        /\ Len(rows) > Len(full) - Len(methods[leads[3][1]].lead_rows)

\* ---------------------------------------------------------------------- C3

\* Touch.__init__ has passed or failed its length check
LengthChecked == pc = "done" \/ (pc = "raised" /\ outcome # "FAILED")

\* C3: a touch whose composition succeeds raises the length-mismatch error
\* if and only if the declared length differs from the number of rows of
\* the final (possibly truncated) row sequence; when they are equal the
\* construction completes, with the declared length kept.
C3_LengthCheck ==
  LengthChecked =>
    /\ (pc = "raised") <=> (length # Len(rows))
    /\ (pc = "raised") <=> (error = "ValueError")
    /\ (pc = "done") <=> (length = Len(rows))
    /\ (pc = "done") <=> (error = "none")
    /\ length \in DeclaredLengths

\* A snap finish of 50 rows declared as 32 rows is rejected.
C3_Witness ==
  /\ pc = "raised"
  /\ error = "ValueError"
  /\ outcome = "TRUNCATED"
  /\ length < Len(rows)

\* ---------------------------------------------------------------------- C4

\* The number of tokens of ls that name method m
Occurrences(ls, m) == Cardinality({i \in 1..Len(ls) : ls[i][1] = m})

\* The methods the tokens of ls name
Named(ls) == {ls[i][1] : i \in 1..Len(ls)}

\* Touch.method_counts has been computed
Counted == pc \in {"check", "done"} \/ (pc = "raised" /\ outcome # "FAILED")

\* C4: with n the number of tokens naming the last token's method and half
\* the lead length of that method divided by two, the count of that method
\* is n - 1 when the last lead's effective length is strictly less than half
\* and n >= 2, and n otherwise; the count of every other method is its
\* number of tokens; every count is at least 1.
C4_HalfLead ==
  Counted =>
    LET last == leads[Len(leads)][1]
        n == Occurrences(leads, last)
        lead_length == Len(methods[last].lead_rows)
    IN /\ last \in DOMAIN method_counts
       /\ method_counts[last] =
            IF 2 * last_lead_length < lead_length /\ n >= 2 THEN n - 1 ELSE n
       /\ \A m \in Named(leads) \ {last} :
            m \in DOMAIN method_counts /\ method_counts[m] = Occurrences(leads, m)
       /\ \A m \in DOMAIN method_counts : method_counts[m] >= 1

\* A snap finish two rows into the second lead of a method: that lead is not
\* counted.
C4_Witness ==
  /\ Counted
  /\ LET last == leads[Len(leads)][1]
     IN /\ Occurrences(leads, last) = 2
        /\ last_lead_length = 2
        /\ method_counts[last] = 1

\* ---------------------------------------------------------------------- C5

\* The 0-based index of the first row of the i-th lead of ls in the
\* untruncated row sequence
RECURSIVE LeadStart(_, _)
LeadStart(ls, i) ==
  IF i <= 1 THEN 0
  ELSE LeadStart(ls, i - 1) + Len(methods[ls[i - 1][1]].lead_rows)

\* At least one row of the final row sequence comes from a lead of method m
Rung(m) ==
  \E i \in 1..Len(leads) : leads[i][1] = m /\ LeadStart(leads, i) < Len(rows)

\* C5: in every successfully constructed touch every key of the method-count
\* mapping is a method that was rung: at least one row of the final row
\* sequence comes from a lead of it.
C5_KeysAreRung ==
  pc = "done" => \A m \in DOMAIN method_counts : Rung(m)

\* ---------------------------------------------------------------------- C8

\* The four-bell runs: 1234 .. 5678 and their reverses
IsRun(four) ==
  \E low \in 1..(STAGE - 3) :
    \/ four = [i \in 1..4 |-> BELL_NAMES[low + i - 1]]
    \/ four = [i \in 1..4 |-> BELL_NAMES[low + 4 - i]]

\* C8: the run count of a touch is the number of rows of its final row
\* sequence whose first four symbols are a run plus the number of rows whose
\* last four symbols are a run: front and back count independently, and the
\* rows removed by truncation count for nothing.
C8_RunCount ==
  pc = "done" =>
    runs = Cardinality({i \in 1..Len(rows) : IsRun(SubSeq(rows[i], 1, 4))})
         + Cardinality({i \in 1..Len(rows) :
                          IsRun(SubSeq(rows[i], STAGE - 3, STAGE))})

\* A truncated touch whose rows score at the front only, at the back only
\* and at both ends.
C8_Witness ==
  /\ pc = "done"
  /\ outcome = "TRUNCATED"
  /\ \E i, j, k \in 1..Len(rows) :
       /\ RunFront(rows[i]) /\ RunBack(rows[i])
       /\ RunFront(rows[j]) /\ ~RunBack(rows[j])
       /\ ~RunFront(rows[k]) /\ RunBack(rows[k])
  /\ runs > 3

\* ---------------------------------------------------------------------- C9

\* The number of rows of the last lead that remain in the final row sequence
RowsOfLastLead ==
  LET start == LeadStart(leads, Len(leads))
  IN IF Len(rows) > start THEN Len(rows) - start ELSE 0

\* C9: the last-lead effective length that gen_rows_and_calls returns is the
\* number of rows of the final lead that remain in the final row sequence,
\* and so lies between 0 and the lead length of the last method.
C9_EffectiveLength ==
  (Composed /\ outcome # "FAILED") =>
    /\ last_lead_length = RowsOfLastLead
    /\ 0 <= last_lead_length
    /\ last_lead_length <= Len(methods[leads[Len(leads)][1]].lead_rows)

\* ---------------------------------------------------------------------- C6

\* A valid row of the stage: each of the first STAGE bell symbols once
IsRow(r) ==
  /\ DOMAIN r = 1..STAGE
  /\ {r[i] : i \in 1..STAGE} = {BELL_NAMES[i] : i \in 1..STAGE}

\* The number of the bell a symbol names
BellNumber(symbol) == CHOOSE n \in 1..Len(BELL_NAMES) : BELL_NAMES[n] = symbol

\* C6: for valid rows a and b, transpose_row_by_row(a, b) is a valid row
\* whose symbol at position i is the symbol of a at the position that b[i]
\* numbers; and every row of the row sequence of a composed touch, and its
\* lead head, is a valid row.
C6_Closure ==
  /\ (pc = "returned" /\ fn = "transpose_row_by_row") =>
        LET a == fn_args[1]
            b == fn_args[2]
        IN /\ IsRow(a) /\ IsRow(b)
           /\ IsRow(fn_result)
           /\ \A i \in 1..STAGE : fn_result[i] = a[BellNumber(b[i])]
  /\ (Composed /\ outcome # "FAILED") =>
        /\ IsRow(lead_head)
        /\ \A i \in 1..Len(rows) : IsRow(rows[i])

\* Two rows that do not commute have been composed.
C6_Witness ==
  /\ pc = "returned"
  /\ fn = "transpose_row_by_row"
  /\ fn_args[1] # ROUNDS
  /\ fn_args[2] # ROUNDS
  /\ fn_args[1][1] # "1"
  /\ fn_result # transpose_row_by_row(fn_args[2], fn_args[1])

\* ---------------------------------------------------------------------- C7

\* The order of a row under composition: the least k >= 1 for which k
\* copies of it compose to rounds; x is the composition of k copies.
RECURSIVE OrderFrom(_, _, _)
OrderFrom(r, x, k) ==
  IF x = ROUNDS THEN k ELSE OrderFrom(r, transpose_row_by_row(x, r), k + 1)

Order(r) == OrderFrom(r, r, 1)

\* The call string is k >= 1 plain leads of one method
PlainCourse(k) ==
  /\ Len(leads) = k
  /\ k >= 1
  /\ \A i \in 1..k : leads[i] = <<leads[1][1], "None">>

\* C7: replaying exactly k plain leads of a method whose lead_head_plain has
\* order k ends with the lead head at rounds: the composition succeeds, it
\* never fails to come round, and no call is recorded.
C7_ComeRoundLaw ==
  (leads # <<>> /\ PlainCourse(Order(methods[leads[1][1]].lead_head_plain))) =>
    /\ lead_head = ROUNDS
    /\ calls = <<>>
    /\ outcome # "FAILED"
    /\ error = "none"
    /\ pc = "loop" => ENABLED (Truncate \/ ComeRound)
    /\ ~ENABLED DoesNotComeRound

\* The plain course of a method with 32 rows to the lead has come round after
\* its seven leads.
C7_Witness ==
  /\ PlainCourse(7)
  /\ Order(methods[leads[1][1]].lead_head_plain) = 7
  /\ outcome = "COME_ROUND"
  /\ Len(rows) = 7 * 32
  /\ calls = <<>>

\* --------------------------------------------------------------------- C10

\* transpose_row_by_pn has returned or raised
PnReturned == pc = "returned" /\ fn = "transpose_row_by_pn"

\* The place-set holds a position and its successor
AdjacentPlaces(places) == \E p \in 1..MaxPlace : In(p, places) /\ In(p + 1, places)

\* Positions s..e of a row of n symbols are a maximal run of positions that
\* are not places
NonPlaceRun(places, n, s, e) ==
  /\ 1 <= s /\ s <= e /\ e <= n
  /\ \A q \in s..e : ~In(q, places)
  /\ s = 1 \/ In(s - 1, places)
  /\ e = n \/ In(e + 1, places)

\* Some maximal run of non-places has odd length
OddRun(places, n) ==
  \E s, e \in 1..n : NonPlaceRun(places, n, s, e) /\ (e - s + 1) % 2 = 1

\* The first position of the run of non-places that holds position q
RunStart(places, q) ==
  CHOOSE s \in 1..q :
    /\ \A t \in s..q : ~In(t, places)
    /\ s = 1 \/ In(s - 1, places)

\* Positions in the place-set keep their symbol and the others are swapped in
\* disjoint adjacent pairs, taken left to right
PairsSwapped(row, places, out) ==
  /\ Len(out) = Len(row)
  /\ \A q \in 1..Len(row) :
       IF In(q, places) THEN out[q] = row[q]
       ELSE IF (q - RunStart(places, q)) % 2 = 0
            THEN q < Len(row) /\ out[q] = row[q + 1]
            ELSE out[q] = row[q - 1]

\* C10 as claimed: transpose_row_by_pn fails whenever the place-set holds a
\* position together with its successor, and on the place-sets it accepts
\* the places keep their symbol and the rest is swapped in pairs.
C10_AdjacentPlacesFail ==
  PnReturned =>
    /\ AdjacentPlaces(fn_args[2]) => fn_result.exc # "none"
    /\ fn_result.exc = "none" =>
         PairsSwapped(fn_args[1], fn_args[2], fn_result.row)

\* C10 as amended: transpose_row_by_pn fails exactly when some maximal run of
\* consecutive positions outside the place-set has odd length; adjacent places
\* do not make it fail. On the place-sets it accepts, the places keep their
\* symbol and the rest is swapped in disjoint adjacent pairs, left to right.
C10_OddRunFails ==
  PnReturned =>
    /\ (fn_result.exc # "none") <=> OddRun(fn_args[2], Len(fn_args[1]))
    /\ fn_result.exc = "none" =>
         PairsSwapped(fn_args[1], fn_args[2], fn_result.row)

\* A place-set with adjacent places is accepted: the places keep their
\* symbols and the other positions are swapped.
C10_Witness ==
  /\ PnReturned
  /\ AdjacentPlaces(fn_args[2])
  /\ fn_result.exc = "none"
  /\ fn_result.row # fn_args[1]
  /\ \E q \in 1..STAGE : ~In(q, fn_args[2])

\* --------------------------------------------------------------------- C11

\* The 0-based index of the tenor in a row
TenorIndex(row) == (CHOOSE i \in 1..Len(row) : row[i] = TENOR) - 1

\* The 1-based indexes of the tokens of ls that carry a call, ascending
RECURSIVE CalledTokens(_)
CalledTokens(ls) ==
  IF ls = <<>> THEN <<>>
  ELSE LET before == CalledTokens(SubSeq(ls, 1, Len(ls) - 1))
       IN IF ls[Len(ls)][2] = "None" THEN before ELSE Append(before, Len(ls))

\* The lead head after the first i tokens of ls
HeadAfter(ls, i) == Replay(SubSeq(ls, 1, i)).lead_head

\* The entry the call of token i of ls is expected to leave
ExpectedCall(ls, i) ==
  LET p == TenorIndex(HeadAfter(ls, i))
  IN IF ls[i][2] = "."
     THEN <<"-", <<"L", "I", "B", "F", "V", "M", "W", "H">>[p + 1]>>
     ELSE <<"s", <<"L", "B", "T", "F", "V", "M", "W", "H">>[p + 1]>>

\* C11: the call list of a composed touch has exactly one entry per token
\* that carries a call, in token order, and none for plain tokens; a bob
\* leaves ("-", "LIBFVMWH"[p]) and a single ("s", "LBTFVMWH"[p]), p being the
\* 0-based index of the tenor in the lead head after that call.
C11_CallList ==
  (Composed /\ outcome # "FAILED") =>
    LET called == CalledTokens(leads)
    IN /\ Len(calls) = Len(called)
       /\ \A k \in 1..Len(called) : calls[k] = ExpectedCall(leads, called[k])

\* A composed touch with a plain token, a bob and a single, where a call
\* moved the tenor and a single fell where the two tables differ.
C11_Witness ==
  /\ Composed
  /\ outcome # "FAILED"
  /\ \E i \in 1..Len(leads) : leads[i][2] = "None"
  /\ \E k \in 1..Len(calls) : calls[k][1] = "-"
  /\ \E k \in 1..Len(calls) : calls[k][1] = "s" /\ calls[k][2] \in {"B", "T"}
  /\ \E i \in 1..Len(leads) :
       /\ leads[i][2] # "None"
       /\ TenorIndex(HeadAfter(leads, i)) # TenorIndex(HeadAfter(leads, i - 1))

\* --------------------------------------------------------------------- C12

\* Method has returned or raised
MethodReturned == pc = "returned" /\ fn = "Method"

\* out is row advanced by the place-set places
Advanced(row, places, out) ==
  /\ ~OddRun(places, Len(row))
  /\ PairsSwapped(row, places, out)

\* C12: a Method built from the place-set sequence pns has exactly len(pns)
\* lead rows, the first is rounds, each next one is the previous advanced by
\* its place-set, lead_head_plain is the last lead row advanced by the last
\* place-set, and lead_head_bob and lead_head_single are the last lead row
\* (not lead_head_plain) advanced by the places 1, 4 and 1, 2, 3, 4.
C12_MethodConstruction ==
  (MethodReturned /\ fn_result.exc = "none") =>
    LET pns == parse_pn(fn_args[1], FALSE).pns
        lead_rows == fn_result.lead_rows
        n == Len(lead_rows)
    IN /\ n = Len(pns)
       /\ n >= 1
       /\ lead_rows[1] = ROUNDS
       /\ \A i \in 1..(n - 1) : Advanced(lead_rows[i], pns[i], lead_rows[i + 1])
       /\ Advanced(lead_rows[n], pns[n], fn_result.lead_head_plain)
       /\ Advanced(lead_rows[n], <<1, 4>>, fn_result.lead_head_bob)
       /\ Advanced(lead_rows[n], <<1, 2, 3, 4>>, fn_result.lead_head_single)

\* A method of the catalogue has been built: 32 rows to the lead, and a bob
\* that differs from what the same places make of the plain lead head.
C12_Witness ==
  /\ MethodReturned
  /\ fn_result.exc = "none"
  /\ Len(fn_result.lead_rows) = 32
  /\ fn_result.lead_head_plain # ROUNDS
  /\ fn_result.lead_head_bob # fn_result.lead_head_plain
  /\ ~Advanced(fn_result.lead_head_plain, <<1, 4>>, fn_result.lead_head_bob)

\* --------------------------------------------------------------------- C13

\* parse_pn has returned or raised
ParseReturned == pc = "returned" /\ fn = "parse_pn"

\* A block without its leading "&" characters
RECURSIVE StripAmp(_)
StripAmp(block) ==
  IF block # <<>> /\ block[1] = "&" THEN StripAmp(Tail(block)) ELSE block

\* The parsed changes c_1..c_n of a block: what it parses to when it is read
\* on its own, without "," and without "&"
Changes(block) == parse_pn(StripAmp(block), FALSE)

\* c_1..c_n followed by c_(n-1)..c_1
Mirror(c) == c \o [i \in 1..(Len(c) - 1) |-> c[Len(c) - i]]

\* The blocks of a string, and whether each is symmetric
BlocksOf(pn_str) == IF In(",", pn_str) THEN Split(pn_str, ",") ELSE <<pn_str>>

IsSymmetric(pn_str, expect_symmetric, block) ==
  IF In(",", pn_str) \/ expect_symmetric
  THEN ~(block # <<>> /\ block[1] = "+")
  ELSE block # <<>> /\ block[1] = "&"

\* The concatenation of a sequence of sequences
RECURSIVE Concat(_)
Concat(seqs) == IF seqs = <<>> THEN <<>> ELSE Head(seqs) \o Concat(Tail(seqs))

\* C13: parse_pn mirrors a block exactly when it is symmetric. A string
\* without "," is symmetric only if it starts with "&" (when called as a block,
\* and for each block of a string with ",", unless it starts with "+"). A
\* symmetric block with changes c_1..c_n yields c_1..c_n c_(n-1)..c_1, of
\* length 2n-1; any other block yields c_1..c_n; the results of the blocks
\* are concatenated in block order. It raises if and only if a block does.
C13_Mirroring ==
  ParseReturned =>
    LET pn_str == fn_args[1]
        blocks == BlocksOf(pn_str)
        raises == \E i \in 1..Len(blocks) : Changes(blocks[i]).exc # "none"
        yield(block) ==
          IF IsSymmetric(pn_str, fn_args[2], block)
          THEN Mirror(Changes(block).pns)
          ELSE Changes(block).pns
    IN /\ (fn_result.exc # "none") <=> raises
       /\ ~raises =>
            /\ fn_result.pns = Concat([i \in 1..Len(blocks) |-> yield(blocks[i])])
            /\ \A i \in 1..Len(blocks) :
                 Len(yield(blocks[i])) =
                   IF IsSymmetric(pn_str, fn_args[2], blocks[i])
                   THEN 2 * Len(Changes(blocks[i]).pns) - 1
                   ELSE Len(Changes(blocks[i]).pns)

\* A string of two blocks has been parsed: one has several changes and is
\* mirrored, the other starts with "+", has several changes and is left as
\* it is.
C13_Witness ==
  /\ ParseReturned
  /\ fn_result.exc = "none"
  /\ fn_args[2] = FALSE
  /\ LET blocks == BlocksOf(fn_args[1])
     IN /\ Len(blocks) = 2
        /\ blocks[1] # <<>> /\ blocks[1][1] # "+"
        /\ Len(Changes(blocks[1]).pns) >= 2
        /\ blocks[2] # <<>> /\ blocks[2][1] = "+"
        /\ Len(Changes(blocks[2]).pns) >= 2
        /\ Len(fn_result.pns) =
             2 * Len(Changes(blocks[1]).pns) - 1 + Len(Changes(blocks[2]).pns)
        /\ Mirror(Changes(blocks[2]).pns) # Changes(blocks[2]).pns

====
